---- MODULE Spec2Model ----
(***************************************************************************)
(* The plasma ObjectDirectory (object_directory.cc): the object table, the *)
(* per-client object-id sets, the deletion cache, the eviction policy's    *)
(* idle list, the allocator's outstanding bytes and the notifications sent *)
(* to subscribers.  Every public operation runs under object_table_mutex_, *)
(* so each one is a single atomic action.                                  *)
(*                                                                         *)
(* What object_directory.cc calls in other files of the repository (the    *)
(* eviction policy, PlasmaAllocator, ObjectTableEntry::Reset, EraseObject, *)
(* the Client record's lifetime) follows the contracts of the design       *)
(* document; each such definition says so in its comment.                  *)
(*                                                                         *)
(* A failed RAY_CHECK aborts the process: the action sets aborted, the     *)
(* directory is gone with the process and nothing happens afterwards.      *)
(***************************************************************************)
EXTENDS Integers, Sequences, FiniteSets, TLC

\* ---------------------------------------------------------------- bounds
NumIds == 2
NumClients == 2
MaxDataSize == 1
MaxMetadataSize == 1
FootprintLimit == 2
MaxBatch == 2
MaxRounds == 4   \* retries of the allocation loop followed in one operation

ObjectIDs == 1..NumIds
Clients == 1..NumClients
DataSizes == 1..MaxDataSize
MetadataSizes == 0..MaxMetadataSize
Devices == {0, 1}

PLASMA_CREATED == "PLASMA_CREATED"
PLASMA_SEALED == "PLASMA_SEALED"
PLASMA_EVICTED == "PLASMA_EVICTED"

VARIABLES
  object_table,       \* object_table_: ObjectID -> entry (a function on the ids present)
  client_object_ids,  \* client->object_ids of every client record
  deletion_cache,     \* deletion_cache_
  lru,                \* eviction_policy_: the idle objects, least recently used first
  allocated,          \* PlasmaAllocator: outstanding bytes
  external_store,     \* external_store_ != nullptr
  notifications,      \* the batches passed to notifications_callback_ by the last operation
  last,               \* the last operation: its name, arguments and results
  observed,           \* the operations whose calls are recorded in last and notifications
  heard,              \* what the subscribers were last told about every id
  aborted             \* a RAY_CHECK failed

vars == <<object_table, client_object_ids, deletion_cache, lru, allocated,
          external_store, notifications, last, observed, heard, aborted>>

\* ------------------------------------------------------------ sequences
RECURSIVE SeqToSet(_)
SeqToSet(s) == IF s = <<>> THEN {} ELSE {Head(s)} \cup SeqToSet(Tail(s))

\* The sequences without repetition over the set S, of length 0..n.
RECURSIVE DistinctSeqs(_, _)
DistinctSeqs(S, n) ==
  IF n = 0 THEN {<<>>}
  ELSE LET shorter == DistinctSeqs(S, n - 1)
       IN shorter \cup {s \o <<x>> : <<s, x>> \in
                          {p \in shorter \X S : p[2] \notin SeqToSet(p[1])}}

\* The orders in which a hash container holding S can be iterated.
Orders(S) == {s \in DistinctSeqs(S, Cardinality(S)) : Len(s) = Cardinality(S)}

\* ------------------------------------------- the directory as one value
\* The operations below are functions on this record, so that one
\* operation can call another (CreateObject -> AllocateMemory ->
\* EvictObjectsInternal) as the code does.
Cur ==
  [tab |-> object_table, cids |-> client_object_ids, dc |-> deletion_cache,
   lru |-> lru, alloc |-> allocated, ext |-> external_store,
   notes |-> <<>>, rs_failed |-> FALSE, crashed |-> FALSE, check |-> "",
   puts |-> <<>>, calls |-> <<>>, rounds |-> <<>>, unfinished |-> FALSE,
   obs |-> observed]

\* The outcomes of the collaborators that the directory does not decide:
\*   quota_ok      EnforcePerClientQuota's answer
\*   keep_on_fail  RequireSpace hands back its selection when it fails
\*   get_ok        external_store_->Get's status
\*   put_ok        external_store_->Put's status
\* An outcome is drawn only where the operation can meet it (alloc: it may
\* allocate with evict_if_full; get: it may call Get; put: it may call Put).
Outcomes(possible, default) == IF possible THEN BOOLEAN ELSE {default}

\* A refused quota ends the allocation before any other outcome is met.
Envs(alloc, get, put) ==
  [quota_ok : {TRUE},
   keep_on_fail : Outcomes(alloc, FALSE),
   get_ok : Outcomes(get, TRUE),
   put_ok : Outcomes(put, TRUE)]
  \cup [quota_ok : {FALSE} \cap Outcomes(alloc, TRUE),
        keep_on_fail : {FALSE}, get_ok : {TRUE}, put_ok : {TRUE}]

\* ---------------------------------------------------------- object entry
\* creator is not a field of the code's entry: it remembers, while
\* AbortObject is observed, which client's create made the entry.
NewEntry ==
  [state |-> PLASMA_EVICTED, ref_count |-> 0, pointer |-> FALSE,
   data_size |-> 0, metadata_size |-> 0, construct_duration |-> -1,
   creator |-> 0]

ObjectSize(e) == e.data_size + e.metadata_size

\* ObjectTableEntry::Reset (from the specification: "reset
\* pointer/fd/map_size/offset"); the mapping descriptors go with the pointer.
Reset(e) == [e EXCEPT !.pointer = FALSE]

\* PlasmaAllocator::Memalign succeeds while the footprint limit allows it.
MemalignOk(alloc, size) == alloc + size <= FootprintLimit

\* PlasmaAllocator::Free: the block goes back to the allocator.
PlasmaAllocatorFree(alloc, pointer, size) ==
  IF pointer THEN alloc - size ELSE alloc

\* FreeObject without its Reset: the entry keeps its pointer.
FreeObjectKeepPointer(D, id) ==
  LET e == D.tab[id]
  IN [D EXCEPT !.alloc = PlasmaAllocatorFree(D.alloc, e.pointer, ObjectSize(e)),
               !.tab[id].state = PLASMA_EVICTED]

\* FreeObject without its PlasmaAllocator::Free: the block is not given back.
FreeObjectKeepBlock(D, id) ==
  [D EXCEPT !.tab[id] = [Reset(D.tab[id]) EXCEPT !.state = PLASMA_EVICTED]]

\* ObjectTableEntry::FreeObject on the entry of id.
FreeObject(D, id) ==
  LET e == D.tab[id]
  IN [D EXCEPT !.alloc = PlasmaAllocatorFree(D.alloc, e.pointer, ObjectSize(e)),
               !.tab[id] = [Reset(e) EXCEPT !.state = PLASMA_EVICTED]]

\* ObjectTableEntry::AllocateMemory: [entry, alloc, status].
EntryAllocateMemory(e, alloc, device_id, size) ==
  IF device_id = 0
  THEN IF ~MemalignOk(alloc, size)
       THEN [entry |-> Reset(e), alloc |-> alloc, status |-> "ObjectStoreFull"]
       ELSE [entry |-> [e EXCEPT !.pointer = TRUE, !.state = PLASMA_CREATED,
                                 !.construct_duration = -1],
             alloc |-> alloc + size, status |-> "OK"]
  ELSE \* built without PLASMA_CUDA
       [entry |-> e, alloc |-> alloc, status |-> "OutOfMemory"]

Erase(tab, id) == [i \in DOMAIN tab \ {id} |-> tab[i]]

\* EraseObject: free the entry's memory and erase it from the table.
EraseObject(D, id) ==
  [D EXCEPT !.alloc = FreeObject(D, id).alloc, !.tab = Erase(D.tab, id)]

\* -------------------------------------------------------- eviction policy
\* The idle list holds [id, size] records, least recently used first.
RECURSIVE SumSizes(_)
SumSizes(s) == IF s = <<>> THEN 0 ELSE Head(s).size + SumSizes(Tail(s))

RECURSIVE RemoveId(_, _)
RemoveId(s, id) ==
  IF s = <<>> THEN <<>>
  ELSE IF Head(s).id = id THEN RemoveId(Tail(s), id)
  ELSE <<Head(s)>> \o RemoveId(Tail(s), id)

IdsOf(s) == [i \in 1..Len(s) |-> s[i].id]

BeginObjectAccess(l, id) == RemoveId(l, id)
EndObjectAccess(l, id, size) == RemoveId(l, id) \o <<[id |-> id, size |-> size]>>
ObjectCreated(l, id) == RemoveId(l, id)
RemoveObject(l, id) == RemoveId(l, id)

\* The shortest prefix of the idle list holding at least n bytes; all of it
\* when there is none.
PrefixFor(l, n) ==
  LET enough == {k \in 0..Len(l) : SumSizes(SubSeq(l, 1, k)) >= n}
  IN IF enough = {} THEN Len(l)
     ELSE CHOOSE k \in enough : \A j \in enough : k <= j

\* ChooseObjectsToEvict: [bytes, chosen, lru].
ChooseObjectsToEvict(l, num_bytes) ==
  LET k == PrefixFor(l, num_bytes)
  IN [bytes |-> SumSizes(SubSeq(l, 1, k)),
      chosen |-> IdsOf(SubSeq(l, 1, k)),
      lru |-> SubSeq(l, k + 1, Len(l))]

\* RequireSpace: [success, chosen, lru].  It fails only when all the idle
\* objects together are smaller than what is needed; whether it then still
\* hands back (and forgets) what it selected is left to the policy.
RequireSpace(l, needed, keep_on_fail) ==
  IF SumSizes(l) >= needed
  THEN LET c == ChooseObjectsToEvict(l, needed)
       IN [success |-> TRUE, chosen |-> c.chosen, lru |-> c.lru]
  ELSE IF keep_on_fail
       THEN [success |-> FALSE, chosen |-> IdsOf(l), lru |-> <<>>]
       ELSE [success |-> FALSE, chosen |-> <<>>, lru |-> l]

\* EnforcePerClientQuota: [quota_ok, chosen, lru].  No per-client quota is
\* set up, so nothing of the client's is selected.
EnforcePerClientQuota(l, quota_ok) ==
  [quota_ok |-> quota_ok, chosen |-> <<>>, lru |-> l]
\* ------------------------------------------------------- object directory
\* An operation that goes on after a call takes the call's result as a
\* parameter: the definitions named ...After... are the code that follows
\* the call in the same function.
Crash(D) == [D EXCEPT !.crashed = TRUE]

\* One of the RAY_CHECKs at the top of EvictObjectsInternal's loop fails.
EvictCheckFailed(D) == [Crash(D) EXCEPT !.check = "EvictObjectsInternal"]

Insert(tab, id, e) ==
  [i \in DOMAIN tab \cup {id} |-> IF i = id THEN e ELSE tab[i]]

DeletionNotification(id) ==
  [object_id |-> id, data_size |-> 0, metadata_size |-> 0, is_deletion |-> TRUE]

SealNotification(id, e) ==
  [object_id |-> id, data_size |-> e.data_size,
   metadata_size |-> e.metadata_size, is_deletion |-> FALSE]

\* The three RAY_CHECKs at the top of EvictObjectsInternal's loop.
EvictChecks(D, id) ==
  /\ id \in DOMAIN D.tab
  /\ D.tab[id].state = PLASMA_SEALED
  /\ D.tab[id].ref_count = 0

\* EvictObjectsInternal's loop without an external store: the entries are
\* freed one by one and infos collects their deletion notifications,
\* which go out in one batch after the loop.
RECURSIVE EvictLoop(_, _, _)
EvictLoop(D, ids, infos) ==
  IF ids = <<>> THEN [D EXCEPT !.notes = Append(@, infos)]
  ELSE IF ~EvictChecks(D, Head(ids)) THEN EvictCheckFailed(D)
  ELSE EvictLoop(FreeObject(D, Head(ids)), Tail(ids),
                 Append(infos, DeletionNotification(Head(ids))))

\* external_store_->Put(object_ids, evicted_object_data): the call is
\* recorded with the buffers it is handed, TRUE for one that is still
\* allocated when the call is made.
Put(D, ids) ==
  [D EXCEPT !.puts = Append(@, [ids |-> ids,
     buffers |-> [i \in 1..Len(ids) |-> D.tab[ids[i]].pointer]])]

\* EvictObjectsInternal's second loop with an external store.
RECURSIVE FreeAll(_, _)
FreeAll(D, ids) ==
  IF ids = <<>> THEN D ELSE FreeAll(FreeObject(D, Head(ids)), Tail(ids))

\* EvictObjectsInternal freeing the batch before it is handed to the store.
EvictObjectsInternalFreeFirst(D, ids, env) ==
  IF ids = <<>> \/ D.crashed THEN D
  ELSE IF D.ext
  THEN IF \E i \in 1..Len(ids) : ~EvictChecks(D, ids[i]) THEN EvictCheckFailed(D)
       ELSE IF ~env.put_ok THEN Crash(D)
       ELSE Put(FreeAll(D, ids), ids)
  ELSE EvictLoop(D, ids, <<>>)

EvictObjectsInternal(D, ids, env) ==
  IF ids = <<>> \/ D.crashed THEN D
  ELSE IF D.ext
  THEN IF \E i \in 1..Len(ids) : ~EvictChecks(D, ids[i]) THEN EvictCheckFailed(D)
       ELSE IF ~env.put_ok THEN Crash(D)   \* RAY_CHECK_OK(external_store_->Put(..))
       ELSE FreeAll(Put(D, ids), ids)
  ELSE EvictLoop(D, ids, <<>>)

\* AddToClientObjectIds: [D, entry]; the entry is passed by value because a
\* new object's entry is not in the table yet.
AddToClientObjectIds(D, id, e, client) ==
  IF id \in D.cids[client] THEN [D |-> D, entry |-> e]
  ELSE [D |-> [D EXCEPT !.lru = IF e.ref_count = 0
                                THEN BeginObjectAccess(@, id) ELSE @,
                        !.calls = IF e.ref_count = 0
                                  THEN Append(@, <<"BeginObjectAccess", id>>) ELSE @,
                        !.cids[client] = @ \cup {id}],
        entry |-> [e EXCEPT !.ref_count = @ + 1]]

\* RemoveFromClientObjectIds once the id is erased from the client's set
\* and the reference count decreased.
RemoveFromClientObjectIdsAfter(D, id, env) ==
  IF D.tab[id].ref_count = 0
  THEN IF id \notin D.dc
       THEN [D EXCEPT !.lru = EndObjectAccess(@, id, ObjectSize(D.tab[id])),
                      !.calls = Append(@, <<"EndObjectAccess", id>>)]
       ELSE EvictObjectsInternal([D EXCEPT !.dc = @ \ {id}], <<id>>, env)
  ELSE D

\* RemoveFromClientObjectIds on the table's entry of id: [D, ret].
RemoveFromClientObjectIds(D, id, client, env) ==
  IF id \in D.cids[client]
  THEN [D |-> RemoveFromClientObjectIdsAfter(
                [D EXCEPT !.cids[client] = @ \ {id}, !.tab[id].ref_count = @ - 1],
                id, env),
        ret |-> 1]
  ELSE [D |-> D, ret |-> 0]

\* AllocateMemory's success branch: ObjectCreated, AddToClientObjectIds.
AllocateSucceeded(D, id, e, client) ==
  [D |-> AddToClientObjectIds(D, id, e, client).D,
   entry |-> AddToClientObjectIds(D, id, e, client).entry,
   status |-> "OK"]

\* The retry loop of ObjectDirectory::AllocateMemory: [D, entry, status].
\* AllocateLoopAfter is the loop's body once entry->AllocateMemory has
\* answered a, and AllocateLoopEvicted what follows EvictObjectsInternal.
RECURSIVE AllocateLoop(_, _, _, _, _, _, _)
RECURSIVE AllocateLoopAfter(_, _, _, _, _, _, _)
RECURSIVE AllocateLoopEvicted(_, _, _, _, _, _, _, _)
\* The loop retrying without the test of RequireSpace's answer.
AllocateLoopAlwaysRetry(D1, success, id, e, size, evict_if_full, client, env) ==
  IF D1.crashed THEN [D |-> D1, entry |-> e, status |-> "abort"]
  ELSE AllocateLoop(D1, id, e, size, evict_if_full, client, env)

AllocateLoopEvicted(D1, success, id, e, size, evict_if_full, client, env) ==
  IF D1.crashed THEN [D |-> D1, entry |-> e, status |-> "abort"]
  ELSE IF ~success
  THEN [D |-> [D1 EXCEPT !.rs_failed = TRUE], entry |-> e, status |-> "OutOfMemory"]
  ELSE AllocateLoop(D1, id, e, size, evict_if_full, client, env)

AllocateLoopAfter(D, a, id, size, evict_if_full, client, env) ==
  IF a.status = "OK"
  THEN AllocateSucceeded([D EXCEPT !.alloc = a.alloc, !.lru = ObjectCreated(@, id)],
                         id, a.entry, client)
  ELSE IF ~evict_if_full
  THEN [D |-> D, entry |-> a.entry, status |-> a.status]
  ELSE AllocateLoopEvicted(
         EvictObjectsInternal(
           [D EXCEPT !.lru = RequireSpace(D.lru, size, env.keep_on_fail).lru,
                     !.rounds = Append(@,
                        [success |-> RequireSpace(D.lru, size, env.keep_on_fail).success,
                         evicted |-> Len(RequireSpace(D.lru, size, env.keep_on_fail).chosen)])],
           RequireSpace(D.lru, size, env.keep_on_fail).chosen, env),
         RequireSpace(D.lru, size, env.keep_on_fail).success,
         id, a.entry, size, evict_if_full, client, env)

AllocateLoop(D, id, e, size, evict_if_full, client, env) ==
  IF Len(D.rounds) > MaxRounds   \* still retrying: followed no further
  THEN [D |-> [D EXCEPT !.unfinished = TRUE], entry |-> e, status |-> "OutOfMemory"]
  ELSE AllocateLoopAfter(D, EntryAllocateMemory(e, D.alloc, 0, size),
                         id, size, evict_if_full, client, env)

\* AllocateMemory after the eviction of what EnforcePerClientQuota selected.
AllocateMemoryAfterQuota(D1, id, e, size, evict_if_full, client, env) ==
  IF D1.crashed THEN [D |-> D1, entry |-> e, status |-> "abort"]
  ELSE AllocateLoop(D1, id, e, size, evict_if_full, client, env)

\* ObjectDirectory::AllocateMemory: [D, entry, status].
AllocateMemory(D, id, e, size, evict_if_full, client, is_create, device_num, env) ==
  IF e.pointer THEN [D |-> Crash(D), entry |-> e, status |-> "abort"]
  ELSE IF device_num # 0
  THEN [D |-> D, entry |-> EntryAllocateMemory(e, D.alloc, device_num, size).entry,
        status |-> EntryAllocateMemory(e, D.alloc, device_num, size).status]
  ELSE IF evict_if_full /\ ~EnforcePerClientQuota(D.lru, env.quota_ok).quota_ok
  THEN [D |-> D, entry |-> e, status |-> "OutOfMemory"]
  ELSE IF evict_if_full
  THEN AllocateMemoryAfterQuota(
         EvictObjectsInternal(
           [D EXCEPT !.lru = EnforcePerClientQuota(D.lru, env.quota_ok).lru],
           EnforcePerClientQuota(D.lru, env.quota_ok).chosen, env),
         id, e, size, evict_if_full, client, env)
  ELSE AllocateLoop(D, id, e, size, evict_if_full, client, env)

\* CreateObjectInternal once AllocateMemory has answered r: [D, status].
CreateObjectInternalAfter(r, id, data_size, metadata_size, client) ==
  IF r.D.crashed THEN [D |-> r.D, status |-> "abort"]
  ELSE IF r.status # "OK" THEN [D |-> r.D, status |-> "OutOfMemory"]
  ELSE [D |-> [r.D EXCEPT !.tab =
                 Insert(@, id, [r.entry EXCEPT
                   !.data_size = data_size,
                   !.metadata_size = metadata_size,
                   !.creator = IF "AbortObject" \in r.D.obs THEN client ELSE 0])],
        status |-> "OK"]

\* CreateObjectInternal without its look-up of the id in the table.
CreateObjectInternalUnchecked(D, id, evict_if_full, data_size, metadata_size, device_num, client, env) ==
  IF data_size + metadata_size <= 0
  THEN [D |-> Crash(D), status |-> "abort"]
  ELSE CreateObjectInternalAfter(
         AllocateMemory(D, id, NewEntry, data_size + metadata_size,
                        evict_if_full, client, TRUE, device_num, env),
         id, data_size, metadata_size, client)

\* CreateObjectInternal: [D, status].
CreateObjectInternal(D, id, evict_if_full, data_size, metadata_size, device_num, client, env) ==
  IF id \in DOMAIN D.tab THEN [D |-> D, status |-> "ObjectExists"]
  ELSE IF data_size + metadata_size <= 0
  THEN [D |-> Crash(D), status |-> "abort"]
  ELSE CreateObjectInternalAfter(
         AllocateMemory(D, id, NewEntry, data_size + metadata_size,
                        evict_if_full, client, TRUE, device_num, env),
         id, data_size, metadata_size, client)

\* SealObjectsInternal's loop without the call of notifications_callback_.
RECURSIVE SealLoopSilent(_, _, _)
SealLoopSilent(D, ids, infos) ==
  IF ids = <<>> THEN D
  ELSE IF Head(ids) \notin DOMAIN D.tab
          \/ D.tab[Head(ids)].state # PLASMA_CREATED
  THEN Crash(D)
  ELSE SealLoopSilent([D EXCEPT !.tab[Head(ids)].state = PLASMA_SEALED,
                                !.tab[Head(ids)].construct_duration = 0],
                      Tail(ids), infos)

\* SealObjectsInternal's loop without its two RAY_CHECKs.
RECURSIVE SealLoopUnchecked(_, _, _)
SealLoopUnchecked(D, ids, infos) ==
  IF ids = <<>> THEN [D EXCEPT !.notes = Append(@, infos)]
  ELSE IF Head(ids) \notin DOMAIN D.tab
  THEN SealLoopUnchecked(D, Tail(ids), infos)
  ELSE SealLoopUnchecked([D EXCEPT !.tab[Head(ids)].state = PLASMA_SEALED,
                                   !.tab[Head(ids)].construct_duration = 0],
                         Tail(ids),
                         Append(infos, SealNotification(Head(ids), D.tab[Head(ids)])))

\* SealObjectsInternal's loop; infos goes out in one batch after it.
RECURSIVE SealLoop(_, _, _)
SealLoop(D, ids, infos) ==
  IF ids = <<>> THEN [D EXCEPT !.notes = Append(@, infos)]
  ELSE IF Head(ids) \notin DOMAIN D.tab
          \/ D.tab[Head(ids)].state # PLASMA_CREATED
  THEN Crash(D)
  ELSE SealLoop([D EXCEPT !.tab[Head(ids)].state = PLASMA_SEALED,
                          !.tab[Head(ids)].construct_duration = 0],
                Tail(ids),
                Append(infos, SealNotification(Head(ids), D.tab[Head(ids)])))

SealObjectsInternal(D, ids) == SealLoop(D, ids, <<>>)

\* GetObjects' loop over the requested ids; G is
\* [D, sealed, nonexistent, evicted_ids].  Only host entries exist (a device
\* allocation fails without PLASMA_CUDA), so entry->device_num is 0.
\* GetLoopAfter is the PLASMA_EVICTED case once AllocateMemory has answered r.
RECURSIVE GetLoop(_, _, _, _)
RECURSIVE GetLoopAfter(_, _, _, _, _)
GetLoopAfter(G, r, ids, client, env) ==
  IF r.D.crashed THEN [G EXCEPT !.D = r.D]
  ELSE IF r.status = "OK"
  THEN GetLoop([G EXCEPT !.D = [r.D EXCEPT !.tab[Head(ids)] = r.entry],
                         !.evicted_ids = Append(@, Head(ids))],
               Tail(ids), client, env)
  ELSE GetLoop([G EXCEPT !.D = [r.D EXCEPT !.tab[Head(ids)] =
                            [r.entry EXCEPT !.state = PLASMA_EVICTED]]],
               Tail(ids), client, env)

GetLoop(G, ids, client, env) ==
  IF ids = <<>> \/ G.D.crashed THEN G
  ELSE IF Head(ids) \notin DOMAIN G.D.tab
  THEN GetLoop([G EXCEPT !.nonexistent = Append(@, Head(ids))], Tail(ids), client, env)
  ELSE IF G.D.tab[Head(ids)].state = PLASMA_SEALED
  THEN GetLoop([G EXCEPT !.sealed = Append(@, Head(ids))], Tail(ids), client, env)
  ELSE IF G.D.tab[Head(ids)].state = PLASMA_EVICTED
  THEN GetLoopAfter(G,
         AllocateMemory(G.D, Head(ids), G.D.tab[Head(ids)],
                        ObjectSize(G.D.tab[Head(ids)]), TRUE, client, FALSE, 0, env),
         ids, client, env)
  ELSE GetLoop([G EXCEPT !.nonexistent = Append(@, Head(ids))], Tail(ids), client, env)

\* "for (const auto& entry : entries) entry->state = ...": the entries are
\* named by their ids.
RECURSIVE MarkSealed(_, _)
MarkSealed(D, entries) ==
  IF entries = <<>> THEN D
  ELSE MarkSealed([D EXCEPT !.tab[Head(entries)].state = PLASMA_SEALED,
                            !.tab[Head(entries)].construct_duration = 0],
                  Tail(entries))

RECURSIVE MarkEvicted(_, _)
MarkEvicted(D, entries) ==
  IF entries = <<>> THEN D
  ELSE MarkEvicted([D EXCEPT !.tab[Head(entries)].state = PLASMA_EVICTED],
                   Tail(entries))

\* The vector `entries` of GetObjects: declared, and nothing is ever pushed
\* to it.
GetObjectsEntries(evicted_ids) == <<>>

\* GetObjects after its loop: [D, sealed, reconstructed, nonexistent, evicted_ids].
GetObjectsAfter(G, env) ==
  IF G.D.crashed \/ G.evicted_ids = <<>>
  THEN [G EXCEPT !.D = G.D] @@ [reconstructed |-> <<>>]
  ELSE IF G.D.ext /\ env.get_ok
  THEN [G EXCEPT !.D = MarkSealed(G.D, GetObjectsEntries(G.evicted_ids))]
       @@ [reconstructed |-> G.evicted_ids]
  ELSE [G EXCEPT !.D = MarkEvicted(G.D, GetObjectsEntries(G.evicted_ids))]
       @@ [reconstructed |-> <<>>]

GetObjects(D, ids, client, env) ==
  GetObjectsAfter(GetLoop([D |-> D, sealed |-> <<>>, nonexistent |-> <<>>,
                           evicted_ids |-> <<>>], ids, client, env), env)

\* DeleteObject: [D, status].
DeleteObject(D, id) ==
  IF id \notin DOMAIN D.tab THEN [D |-> D, status |-> "ObjectNonexistent"]
  ELSE IF D.tab[id].state # PLASMA_SEALED
  THEN [D |-> [D EXCEPT !.dc = @ \cup {id}], status |-> "ObjectNotSealed"]
  ELSE IF D.tab[id].ref_count # 0
  THEN [D |-> [D EXCEPT !.dc = @ \cup {id}], status |-> "ObjectInUse"]
  ELSE [D |-> [EraseObject([D EXCEPT !.lru = RemoveObject(@, id)], id) EXCEPT
                 !.notes = Append(@, <<DeletionNotification(id)>>)],
        status |-> "OK"]

\* AbortObject past its two RAY_CHECKs: [D, ret].
AbortObject(D, id, client) ==
  IF id \notin D.cids[client] THEN [D |-> D, ret |-> 0]
  ELSE [D |-> [EraseObject(D, id) EXCEPT !.cids[client] = @ \ {id}], ret |-> 1]

\* DisconnectClient's first loop on the unsealed objects of the client.
RECURSIVE EraseAll(_, _)
EraseAll(D, ids) ==
  IF ids = <<>> THEN D ELSE EraseAll(EraseObject(D, Head(ids)), Tail(ids))

\* DisconnectClient's second loop, in the order the map sealed_objects is
\* iterated.
RECURSIVE RemoveAll(_, _, _, _)
RemoveAll(D, ids, client, env) ==
  IF ids = <<>> \/ D.crashed THEN D
  ELSE RemoveAll(RemoveFromClientObjectIds(D, Head(ids), client, env).D,
                 Tail(ids), client, env)

SealedOf(D, client) ==
  {id \in D.cids[client] \cap DOMAIN D.tab : D.tab[id].state = PLASMA_SEALED}

UnsealedOf(D, client) ==
  {id \in D.cids[client] \cap DOMAIN D.tab : D.tab[id].state # PLASMA_SEALED}

\* DisconnectClient without its branch for the unsealed objects.
DisconnectClientSealedOnly(D, client, order, env) ==
  RemoveAll(D, order, client, env)

\* DisconnectClient; eviction_policy_.ClientDisconnected leaves the idle
\* list as it is.
DisconnectClient(D, client, order, env) ==
  RemoveAll(EraseAll(D, CHOOSE s \in Orders(UnsealedOf(D, client)) : TRUE),
            order, client, env)

\* ------------------------------------------------------------ the actions
\* What the last operation was and what it returned.
Op(op, client, ids, status) ==
  [op |-> op, client |-> client, ids |-> ids, status |-> status,
   sealed |-> <<>>, reconstructed |-> <<>>, nonexistent |-> <<>>,
   evicted_ids |-> <<>>, attempted |-> {}, erased |-> {}, get_ok |-> FALSE,
   require_space_failed |-> FALSE, puts |-> <<>>,
   data_size |-> 0, metadata_size |-> 0, calls |-> <<>>,
   rounds |-> <<>>, unfinished |-> FALSE]

NoOp == Op("none", 0, <<>>, "")

\* A subscriber of notifications_callback_ keeps, for every id, the kind of
\* the last notification about it: "never" before the first one, "sealed"
\* after a seal notification, "deleted" after a deletion notification that
\* came after a seal notification, and "out_of_order" for good once a
\* deletion notification came first or after another deletion notification.
Hear(h, n) ==
  [h EXCEPT ![n.object_id] =
     IF @ = "out_of_order" THEN @
     ELSE IF ~n.is_deletion THEN "sealed"
     ELSE IF @ = "sealed" THEN "deleted" ELSE "out_of_order"]

RECURSIVE HearBatch(_, _)
HearBatch(h, infos) ==
  IF infos = <<>> THEN h ELSE HearBatch(Hear(h, Head(infos)), Tail(infos))

\* The batches of one operation, in the order of the calls of the callback.
RECURSIVE HearAll(_, _)
HearAll(h, notes) ==
  IF notes = <<>> THEN h ELSE HearAll(HearBatch(h, Head(notes)), Tail(notes))

\* The directory after an operation; a failed RAY_CHECK ends the process.
\* last and notifications describe the operation when its kind is an
\* observed one.
CommitAs(D, l, kind) ==
  IF D.crashed
  THEN /\ aborted' = TRUE
       /\ object_table' = <<>>
       /\ client_object_ids' = [c \in Clients |-> {}]
       /\ deletion_cache' = {}
       /\ lru' = <<>>
       /\ allocated' = 0
       /\ notifications' = <<>>
       /\ last' = IF "RAY_CHECK" \in observed
                  THEN Op("RAY_CHECK", 0, <<>>, D.check) ELSE NoOp
       /\ heard' = IF "Notifications" \in observed
                   THEN HearAll(heard, D.notes) ELSE heard
       /\ UNCHANGED <<external_store, observed>>
  ELSE /\ object_table' = D.tab
       /\ client_object_ids' = D.cids
       /\ deletion_cache' = D.dc
       /\ lru' = D.lru
       /\ allocated' = D.alloc
       /\ notifications' = IF kind \in observed THEN D.notes ELSE <<>>
       /\ last' = IF "AllocateLoop" \in observed /\ D.rounds # <<>>
                  THEN [Op("AllocateMemory", 0, <<>>, l.status) EXCEPT
                          !.rounds = D.rounds, !.unfinished = D.unfinished]
                  ELSE IF kind \in observed
                  THEN [l EXCEPT !.puts = IF kind = "EvictObjects"
                                          THEN D.puts ELSE <<>>,
                                 !.calls = IF "PolicyCalls" \in observed
                                           THEN D.calls ELSE <<>>]
                  ELSE NoOp
       /\ heard' = IF "Notifications" \in observed
                   THEN HearAll(heard, D.notes) ELSE heard
       /\ UNCHANGED <<external_store, observed, aborted>>

Commit(D, l) == CommitAs(D, l, l.op)

\* The id lists a request can carry.
IdLists == UNION {[1..n -> ObjectIDs] : n \in 1..MaxBatch}

HasEvicted(ids) ==
  \E i \in 1..Len(ids) : /\ ids[i] \in DOMAIN object_table
                         /\ object_table[ids[i]].state = PLASMA_EVICTED

\* The arguments of a create request that the call reads: when the id is in
\* the table the call returns before it reads any of them.
CreateArgs(id) ==
  IF id \in DOMAIN object_table THEN {<<TRUE, 1, 0>>}
  ELSE BOOLEAN \X DataSizes \X MetadataSizes

\* A create reads its client only when the id is not in the table.
CreateClients(id) == IF id \in DOMAIN object_table THEN {1} ELSE Clients

\* GetObjects reads its client only to reconstruct an evicted object.
GetClients(ids) == IF HasEvicted(ids) THEN Clients ELSE {1}

InitDirectory ==
  /\ object_table = <<>>
  /\ client_object_ids = [c \in Clients |-> {}]
  /\ deletion_cache = {}
  /\ lru = <<>>
  /\ allocated = 0
  /\ external_store \in BOOLEAN
  /\ notifications = <<>>
  /\ last = NoOp
  /\ heard = [id \in ObjectIDs |-> "never"]
  /\ aborted = FALSE

\* An operation's result r goes to last and to the directory's variables.
Return(r, op, client, ids) ==
  Commit(r.D, [Op(op, client, ids, r.status) EXCEPT
                 !.require_space_failed = r.D.rs_failed])

\* A create of an id that is in the table is observed as a duplicate create.
ReturnCreate(r, op, client, id) ==
  CommitAs(r.D, [Op(op, client, <<id>>, r.status) EXCEPT
                   !.require_space_failed = r.D.rs_failed],
           IF id \in DOMAIN object_table THEN "DuplicateCreate" ELSE op)

CallCreateObject(client, id, evict_if_full, data_size, metadata_size, device_num, env) ==
  /\ ~aborted
  /\ id \in DOMAIN object_table \/ data_size + metadata_size > 0
  /\ ReturnCreate(CreateObjectInternal(Cur, id, evict_if_full, data_size,
                                       metadata_size, device_num, client, env),
                  "CreateObject", client, id)

\* RAY_CHECK(RemoveFromClientObjectIds(object_id, entry, client) == 1)
CheckRemoved(rr) == IF rr.ret = 1 THEN rr.D ELSE Crash(rr.D)

\* CreateAndSealObject once CreateObjectInternal has answered r: [D, status].
CreateAndSealObjectAfter(r, id, client, env) ==
  IF r.D.crashed \/ r.status # "OK" THEN r
  ELSE [D |-> CheckRemoved(RemoveFromClientObjectIds(
                             SealObjectsInternal(r.D, <<id>>), id, client, env)),
        status |-> "OK"]

\* The answer of CreateAndSealObject, with the sizes of data and metadata.
ReturnCreateAndSeal(r, client, id, data_size, metadata_size) ==
  CommitAs(r.D, [Op("CreateAndSealObject", client, <<id>>, r.status) EXCEPT
                   !.require_space_failed = r.D.rs_failed,
                   !.data_size = data_size, !.metadata_size = metadata_size],
           IF id \in DOMAIN object_table THEN "DuplicateCreate"
           ELSE "CreateAndSealObject")

CallCreateAndSealObject(client, id, evict_if_full, data_size, metadata_size, env) ==
  /\ ~aborted
  /\ id \in DOMAIN object_table \/ data_size + metadata_size > 0
  /\ ReturnCreateAndSeal(CreateAndSealObjectAfter(
                           CreateObjectInternal(Cur, id, evict_if_full, data_size,
                                                metadata_size, 0, client, env),
                           id, client, env),
                         client, id, data_size, metadata_size)

CallSealObjects(ids) ==
  /\ ~aborted
  /\ ids # <<>>
  /\ Commit(SealObjectsInternal(Cur, ids), Op("SealObjects", 0, ids, "OK"))

\* The requested ids whose entry is evicted.
EvictedAmong(ids) ==
  {id \in SeqToSet(ids) \cap DOMAIN object_table :
     object_table[id].state = PLASMA_EVICTED}

\* A GetObjects that finds an evicted object among its ids is observed as a
\* reconstruction, by the ids it found evicted and what became of them; a
\* classification is the request with its three output lists.
ReturnGet(r, client, ids, env) ==
  IF "Classification" \in observed
  THEN CommitAs(r.D, [Op("GetObjects", 0, ids, "OK") EXCEPT
                        !.sealed = r.sealed,
                        !.reconstructed = r.reconstructed,
                        !.nonexistent = r.nonexistent],
                "Classification")
  ELSE IF HasEvicted(ids)
  THEN CommitAs(r.D, [Op("GetObjects", 0, <<>>, "OK") EXCEPT
                        !.attempted = EvictedAmong(ids),
                        !.evicted_ids = r.evicted_ids,
                        !.reconstructed = r.reconstructed,
                        !.get_ok = env.get_ok],
                "Reconstruction")
  ELSE Commit(r.D, [Op("GetObjects", client, ids, "OK") EXCEPT
                      !.sealed = r.sealed, !.nonexistent = r.nonexistent])

CallGetObjects(client, ids, env) ==
  /\ ~aborted
  /\ ReturnGet(GetObjects(Cur, ids, client, env), client, ids, env)

\* RegisterSealedObjectToClient; its callers pass the ids that GetObjects
\* reported as sealed.
CallRegisterSealedObjectToClient(client, id) ==
  /\ ~aborted
  /\ id \in DOMAIN object_table
  /\ object_table[id].state = PLASMA_SEALED
  /\ Commit([AddToClientObjectIds(Cur, id, object_table[id], client).D EXCEPT
               !.tab[id] = AddToClientObjectIds(Cur, id, object_table[id], client).entry],
            Op("RegisterSealedObjectToClient", client, <<id>>, "OK"))

CallMarkObjectAsReconstructed(id) ==
  /\ ~aborted
  /\ id \in DOMAIN object_table
  /\ Commit(Cur, Op("MarkObjectAsReconstructed", 0, <<id>>, "OK"))

\* An operation that returns an int.
ReturnInt(r, op, client, ids) ==
  Commit(r.D, Op(op, client, ids, IF r.ret = 1 THEN "1" ELSE "0"))

\* A client's release of an object: RemoveFromClientObjectIds on its entry.
CallReleaseObject(client, id, env) ==
  /\ ~aborted
  /\ id \in DOMAIN object_table
  /\ ReturnInt(RemoveFromClientObjectIds(Cur, id, client, env),
               "ReleaseObject", client, <<id>>)

CallAbortObject(client, id) ==
  /\ ~aborted
  /\ id \in DOMAIN object_table
  /\ object_table[id].state = PLASMA_SEALED
  /\ ReturnInt(AbortObject(Cur, id, client), "AbortObject", client, <<id>>)

CallDeleteObject(id) ==
  /\ ~aborted
  /\ Return(DeleteObject(Cur, id), "DeleteObject", 0, <<id>>)

CallEvictObjects(num_bytes, env) ==
  /\ ~aborted
  /\ Commit(EvictObjectsInternal(
              [Cur EXCEPT !.lru = ChooseObjectsToEvict(lru, num_bytes).lru],
              ChooseObjectsToEvict(lru, num_bytes).chosen, env),
            Op("EvictObjects", 0, ChooseObjectsToEvict(lru, num_bytes).chosen, "OK"))

\* DisconnectClient; the caller then destroys the client record, and the
\* next connection starts with a new one, whose object_ids set is empty.
CallDisconnectClient(client, order, env) ==
  /\ ~aborted
  /\ Commit([DisconnectClient(Cur, client, order, env) EXCEPT !.cids[client] = {}],
            [Op("DisconnectClient", client, <<>>, "OK") EXCEPT
               !.sealed = order, !.erased = UnsealedOf(Cur, client)])

Next ==
  \/ \E id \in ObjectIDs :
       \E c \in CreateClients(id), a \in CreateArgs(id) :
         \E env \in Envs(a[1] /\ id \notin DOMAIN object_table, FALSE,
                         a[1] /\ external_store /\ lru # <<>>) :
           CallCreateObject(c, id, a[1], a[2], a[3], 0, env)
  \/ \E c \in Clients, id \in ObjectIDs \ DOMAIN object_table, dev \in Devices \ {0} :
       CallCreateObject(c, id, TRUE, 1, 0, dev,
                        CHOOSE env \in Envs(FALSE, FALSE, FALSE) : TRUE)
  \/ \E id \in ObjectIDs :
       \E c \in CreateClients(id), a \in CreateArgs(id) :
         \E env \in Envs(a[1] /\ id \notin DOMAIN object_table, FALSE,
                         external_store /\ id \notin DOMAIN object_table
                           /\ (id \in deletion_cache \/ (a[1] /\ lru # <<>>))) :
           CallCreateAndSealObject(c, id, a[1], a[2], a[3], env)
  \/ \E ids \in DistinctSeqs(ObjectIDs, MaxBatch) : CallSealObjects(ids)
  \/ \E ids \in IdLists :
       \E c \in GetClients(ids),
          env \in Envs(HasEvicted(ids), HasEvicted(ids) /\ external_store,
                       HasEvicted(ids) /\ external_store /\ lru # <<>>) :
         CallGetObjects(c, ids, env)
  \/ \E c \in Clients, id \in ObjectIDs : CallRegisterSealedObjectToClient(c, id)
  \/ \E id \in ObjectIDs : CallMarkObjectAsReconstructed(id)
  \/ \E c \in Clients, id \in ObjectIDs :
       \E env \in Envs(FALSE, FALSE, external_store /\ id \in deletion_cache) :
         CallReleaseObject(c, id, env)
  \/ \E c \in Clients, id \in ObjectIDs : CallAbortObject(c, id)
  \/ \E id \in ObjectIDs : CallDeleteObject(id)
  \/ \E n \in 1..FootprintLimit :
       \E env \in Envs(FALSE, FALSE, external_store /\ lru # <<>>) :
         CallEvictObjects(n, env)
  \/ \E c \in Clients :
       \E env \in Envs(FALSE, FALSE, external_store /\ deletion_cache # {}),
          order \in Orders(SealedOf(Cur, c)) :
         CallDisconnectClient(c, order, env)

\* The directory, no operation observed.
Init == InitDirectory /\ observed = {}
Spec == Init /\ [][Next]_vars

\* The directory with the operations of one kind observed.
InitDelete == InitDirectory /\ observed = {"DeleteObject"}
SpecDelete == InitDelete /\ [][Next]_vars

InitRelease == InitDirectory /\ observed = {"ReleaseObject"}
SpecRelease == InitRelease /\ [][Next]_vars

InitDisconnect == InitDirectory /\ observed = {"DisconnectClient"}
SpecDisconnect == InitDisconnect /\ [][Next]_vars

InitAbort == InitDirectory /\ observed = {"AbortObject"}
SpecAbort == InitAbort /\ [][Next]_vars

InitGet == InitDirectory /\ observed = {"Reconstruction"}
SpecGet == InitGet /\ [][Next]_vars

InitCreate == InitDirectory /\ observed = {"CreateObject"}
SpecCreate == InitCreate /\ [][Next]_vars

InitDuplicate == InitDirectory /\ observed = {"DuplicateCreate"}
SpecDuplicate == InitDuplicate /\ [][Next]_vars

InitCreateAndSeal == InitDirectory /\ observed = {"CreateAndSealObject"}
SpecCreateAndSeal == InitCreateAndSeal /\ [][Next]_vars

InitSeal == InitDirectory /\ observed = {"SealObjects"}
SpecSeal == InitSeal /\ [][Next]_vars

InitClassify == InitDirectory /\ observed = {"Classification"}
SpecClassify == InitClassify /\ [][Next]_vars

InitNotify == InitDirectory /\ observed = {"Notifications"}
SpecNotify == InitNotify /\ [][Next]_vars

InitRefs ==
  InitDirectory
  /\ observed = {"RegisterSealedObjectToClient", "ReleaseObject", "PolicyCalls"}
SpecRefs == InitRefs /\ [][Next]_vars

InitAlloc == InitDirectory /\ observed = {"AllocateLoop"}
SpecAlloc == InitAlloc /\ [][Next]_vars

InitEvict == InitDirectory /\ observed = {"EvictObjects"}
SpecEvict == InitEvict /\ [][Next]_vars

InitChecks == InitDirectory /\ observed = {"RAY_CHECK"}
SpecChecks == InitChecks /\ [][Next]_vars

\* ------------------------------------------------------------- properties
Holders(id) == {c \in Clients : id \in client_object_ids[c]}

\* C1: every id in a client's set has an entry in the object table, and the
\* entry's ref_count is the number of clients whose set holds the id.
RefCountConsistent ==
  ~aborted =>
    \A id \in ObjectIDs :
      Holders(id) # {} =>
        /\ id \in DOMAIN object_table
        /\ object_table[id].ref_count = Cardinality(Holders(id))

\* The state of an id in a table; "absent" when it has no entry.
StateOf(tab, id) == IF id \in DOMAIN tab THEN tab[id].state ELSE "absent"

\* The edges of the per-object state machine.  create_and_seal_object runs
\* create and seal in one operation, which gives absent -> Sealed, and then
\* releases the creator's reference, which may complete a pending delete:
\* absent -> absent.
StateEdges ==
  { <<"absent", PLASMA_CREATED>>, <<PLASMA_CREATED, PLASMA_SEALED>>,
    <<PLASMA_SEALED, PLASMA_EVICTED>>, <<PLASMA_EVICTED, PLASMA_SEALED>>,
    <<PLASMA_SEALED, "absent">>, <<PLASMA_CREATED, "absent">>,
    <<"absent", PLASMA_SEALED>> }

\* C2: an object's state changes only along the edges of the state machine,
\* Sealed -> Evicted only with an external store; no step takes an entry
\* from Evicted to Created, and without an external store no step leaves an
\* entry Evicted.
StateMachineEdges ==
  [][~aborted' =>
       \A id \in ObjectIDs :
         /\ StateOf(object_table, id) # StateOf(object_table', id) =>
              /\ <<StateOf(object_table, id), StateOf(object_table', id)>> \in StateEdges
              /\ StateOf(object_table', id) = PLASMA_EVICTED => external_store
         /\ StateOf(object_table', id) = PLASMA_EVICTED => external_store]_vars

\* The operation a step performs, when it is an observed one.
Did(op) == last'.op = op /\ ~aborted'

Arg == last'.ids[1]

NoNotification == notifications' = <<>>

\* C3: delete_object returns ObjectNonexistent for an id not in the table
\* and changes nothing; ObjectNotSealed for an entry that is not Sealed and
\* ObjectInUse for a Sealed entry with ref_count > 0, adding the id to the
\* deletion cache; otherwise it removes the id from the eviction policy,
\* erases the entry, emits one deletion notification and returns OK.  The
\* three other cases emit no notification.
DeleteOutcome ==
  [][Did("DeleteObject") =>
       IF Arg \notin DOMAIN object_table
       THEN /\ last'.status = "ObjectNonexistent"
            /\ object_table' = object_table
            /\ deletion_cache' = deletion_cache
            /\ NoNotification
       ELSE IF object_table[Arg].state # PLASMA_SEALED
       THEN /\ last'.status = "ObjectNotSealed"
            /\ deletion_cache' = deletion_cache \cup {Arg}
            /\ NoNotification
       ELSE IF object_table[Arg].ref_count > 0
       THEN /\ last'.status = "ObjectInUse"
            /\ deletion_cache' = deletion_cache \cup {Arg}
            /\ NoNotification
       ELSE /\ last'.status = "OK"
            /\ Arg \notin SeqToSet(IdsOf(lru'))
            /\ Arg \notin DOMAIN object_table'
            /\ notifications' = << <<DeletionNotification(Arg)>> >>]_vars

\* C4: when the last reference to an id of the deletion cache is released,
\* the object does not go to the idle list: its memory is freed, its entry
\* leaves the table, one deletion notification is emitted and the id leaves
\* the deletion cache.
DeferredDeleteCompletes ==
  [][Did("ReleaseObject") /\ last'.status = "1"
       /\ Arg \in deletion_cache /\ object_table[Arg].ref_count = 1 =>
       /\ Arg \notin SeqToSet(IdsOf(lru'))
       /\ allocated' = allocated - ObjectSize(object_table[Arg])
       /\ Arg \notin DOMAIN object_table'
       /\ notifications' = << <<DeletionNotification(Arg)>> >>
       /\ Arg \notin deletion_cache']_vars

\* C5: abort_object by a client that holds a reference to a sealed object
\* and did not create it, the creator having released it, returns 0 and
\* changes neither the table nor any client's set.
AbortByNonCreator ==
  [][Did("AbortObject")
       /\ object_table[Arg].creator \in Clients \ {last'.client}
       /\ object_table[Arg].creator \notin Holders(Arg)
       /\ last'.client \in Holders(Arg) =>
       /\ last'.status = "0"
       /\ object_table' = object_table
       /\ client_object_ids' = client_object_ids]_vars

\* C6: get_objects on an Evicted entry, with an external store, the
\* allocation and the store's get succeeding, leaves the entry Sealed with
\* a pointer and a stamped construct_duration, and reports the id as
\* reconstructed.
ReconstructionSuccess ==
  [][Did("GetObjects") /\ external_store /\ last'.get_ok =>
       \A id \in last'.attempted \cap SeqToSet(last'.evicted_ids) :
         /\ object_table'[id].state = PLASMA_SEALED
         /\ object_table'[id].pointer
         /\ object_table'[id].construct_duration >= 0
         /\ id \in SeqToSet(last'.reconstructed)]_vars

\* C7: get_objects on an Evicted entry whose allocation fails, or whose
\* fetch fails, or without an external store, leaves the entry Evicted
\* with a null pointer and does not report the id as reconstructed.
ReconstructionRollback ==
  [][Did("GetObjects") =>
       \A id \in last'.attempted :
         id \notin SeqToSet(last'.evicted_ids) \/ ~external_store \/ ~last'.get_ok =>
           /\ object_table'[id].state = PLASMA_EVICTED
           /\ ~object_table'[id].pointer
           /\ id \notin SeqToSet(last'.reconstructed)]_vars

\* C8: a create_object to which require_space answers false returns
\* OutOfMemory and leaves the table as it was.
FailedCreateKeepsTable ==
  [][Did("CreateObject") /\ last'.require_space_failed =>
       /\ last'.status = "OutOfMemory"
       /\ object_table' = object_table]_vars

\* C9: create_object and create_and_seal_object on an id that is in the
\* table return ObjectExists, change neither the table, nor a client's set,
\* nor the eviction policy, nor the allocator, and emit no notification.
DuplicateCreateRejected ==
  [][last'.op \in {"CreateObject", "CreateAndSealObject"}
       /\ Arg \in DOMAIN object_table =>
       /\ ~aborted'
       /\ last'.status = "ObjectExists"
       /\ object_table' = object_table
       /\ client_object_ids' = client_object_ids
       /\ lru' = lru
       /\ allocated' = allocated
       /\ deletion_cache' = deletion_cache
       /\ NoNotification]_vars

\* A duplicate create_and_seal_object of an Evicted entry was rejected.
DuplicateCreateSeen ==
  /\ last.op = "CreateAndSealObject"
  /\ last.status = "ObjectExists"
  /\ object_table[last.ids[1]].state = PLASMA_EVICTED

\* The bytes of the entries in a set of ids.
RECURSIVE BytesOf(_, _)
BytesOf(tab, ids) ==
  IF ids = {} THEN 0
  ELSE LET id == CHOOSE i \in ids : TRUE
       IN ObjectSize(tab[id]) + BytesOf(tab, ids \ {id})

\* The entries a step takes the memory from.
Freed ==
  {id \in DOMAIN object_table :
     /\ object_table[id].pointer
     /\ id \in DOMAIN object_table' => ~object_table'[id].pointer}

\* C10: disconnect_client(C) erases the unsealed objects of C's set, frees
\* their memory and emits no notification for them; decreases by one the
\* ref_count of the Sealed objects of C's set; skips the ids of C's set that
\* are not in the table; and changes no other client's set and no ref_count
\* of an object outside C's set.
DisconnectCleanup ==
  [][Did("DisconnectClient") =>
       /\ \A id \in client_object_ids[last'.client] :
            IF id \notin DOMAIN object_table
            THEN id \notin DOMAIN object_table'
            ELSE IF object_table[id].state # PLASMA_SEALED
            THEN /\ id \notin DOMAIN object_table'
                 /\ id \in Freed \/ ~object_table[id].pointer
                 /\ \A i \in 1..Len(notifications') :
                      \A j \in 1..Len(notifications'[i]) :
                        notifications'[i][j].object_id # id
            ELSE /\ id \in DOMAIN object_table'
                 /\ object_table'[id].ref_count = object_table[id].ref_count - 1
       /\ allocated' = allocated - BytesOf(object_table, Freed)
       /\ \A d \in Clients \ {last'.client} :
            client_object_ids'[d] = client_object_ids[d]
       /\ \A id \in DOMAIN object_table \ client_object_ids[last'.client] :
            /\ id \in DOMAIN object_table'
            /\ object_table'[id].ref_count = object_table[id].ref_count]_vars

\* A disconnect of a client that held an unsealed object and a Sealed one.
DisconnectSeen ==
  /\ last.op = "DisconnectClient"
  /\ last.sealed # <<>>
  /\ last.erased # {}

\* C13: every entry in state Created has a pointer and ref_count >= 1.
CreatedAllocatedAndReferenced ==
  \A id \in DOMAIN object_table :
    object_table[id].state = PLASMA_CREATED =>
      object_table[id].pointer /\ object_table[id].ref_count >= 1

\* C14: every entry in state Sealed has a pointer and every entry in state
\* Evicted has none.
PointerAgreesWithState ==
  \A id \in DOMAIN object_table :
    /\ object_table[id].state = PLASMA_SEALED => object_table[id].pointer
    /\ object_table[id].state = PLASMA_EVICTED => ~object_table[id].pointer

\* A Sealed entry with its block beside an Evicted entry without one.
SealedBesideEvicted ==
  \E i, j \in DOMAIN object_table :
    /\ object_table[i].state = PLASMA_SEALED /\ object_table[i].pointer
    /\ object_table[j].state = PLASMA_EVICTED /\ ~object_table[j].pointer

\* The entries of the table that own a block.
Owners == {id \in DOMAIN object_table : object_table[id].pointer}

EvictionChecksNeverFail ==
  ~(aborted /\ last.op = "RAY_CHECK" /\ last.status = "EvictObjectsInternal")
\* The deletion notifications for id among the batches of the last operation.
DeletionsOf(id) ==
  {p \in {<<b, k>> : b \in 1..Len(notifications'), k \in 1..MaxBatch} :
     /\ p[2] <= Len(notifications'[p[1]])
     /\ notifications'[p[1]][p[2]] = DeletionNotification(id)}

\* C12: an eviction without an external store frees the memory of each
\* evicted id, emits exactly one deletion notification for it and leaves no
\* entry for it in the object table.
EvictionWithoutStoreRemoves ==
  [][Did("EvictObjects") /\ ~external_store =>
       \A i \in 1..Len(last'.ids) :
         /\ Cardinality(DeletionsOf(last'.ids[i])) = 1
         /\ last'.ids[i] \notin DOMAIN object_table'
         /\ allocated' <= allocated - ObjectSize(object_table[last'.ids[i]])]_vars
\* C19: with an external store, an eviction hands the whole batch to the
\* store in one put made while every buffer of the batch is still allocated;
\* afterwards every object of the batch is in the table, Evicted, without a
\* pointer, and no deletion notification has been emitted.
SpillBeforeFree ==
  [][Did("EvictObjects") /\ external_store /\ last'.ids # <<>> =>
       /\ last'.puts = <<[ids |-> last'.ids,
                          buffers |-> [i \in 1..Len(last'.ids) |-> TRUE]]>>
       /\ \A i \in 1..Len(last'.ids) :
            /\ last'.ids[i] \in DOMAIN object_table'
            /\ object_table'[last'.ids[i]].state = PLASMA_EVICTED
            /\ ~object_table'[last'.ids[i]].pointer
       /\ NoNotification]_vars

\* A batch of two objects has been spilled to the external store.
BatchSpilled ==
  /\ ~aborted /\ external_store
  /\ last.op = "EvictObjects" /\ Len(last.ids) = 2
  /\ \A i \in 1..2 : object_table[last.ids[i]].state = PLASMA_EVICTED
\* The places of the notifications about id among the batches of the last
\* operation.
NotesOf(id) ==
  {p \in {<<b, k>> : b \in 1..Len(notifications'), k \in 1..MaxBatch} :
     /\ p[2] <= Len(notifications'[p[1]])
     /\ notifications'[p[1]][p[2]].object_id = id}

\* C16: when create_and_seal_object returns OK the new entry is in the
\* table, Sealed, with ref_count 0, the id is not in the creating client's
\* set, exactly one seal notification with the data and metadata sizes has
\* been emitted, and the object is idle in the eviction policy.
CreateAndSealAtomic ==
  [][Did("CreateAndSealObject") /\ last'.status = "OK" =>
       /\ Arg \in DOMAIN object_table'
       /\ object_table'[Arg].state = PLASMA_SEALED
       /\ object_table'[Arg].ref_count = 0
       /\ Arg \notin client_object_ids'[last'.client]
       /\ Cardinality(NotesOf(Arg)) = 1
       /\ \A p \in NotesOf(Arg) :
            notifications'[p[1]][p[2]] = [object_id |-> Arg,
                                          data_size |-> last'.data_size,
                                          metadata_size |-> last'.metadata_size,
                                          is_deletion |-> FALSE]
       /\ Arg \in SeqToSet(IdsOf(lru'))]_vars
\* C20: seal_objects returns only when every listed id was in the table in
\* state Created; on return each listed entry is Sealed with its ref_count
\* and pointer unchanged, and one batch has been emitted that holds exactly
\* one non-deletion notification per id, in order, with the entry's
\* data_size and metadata_size.
SealTransition ==
  [][Did("SealObjects") =>
       /\ \A i \in 1..Len(last'.ids) :
            /\ last'.ids[i] \in DOMAIN object_table
            /\ object_table[last'.ids[i]].state = PLASMA_CREATED
            /\ object_table' [last'.ids[i]] =
                 [object_table[last'.ids[i]] EXCEPT !.state = PLASMA_SEALED,
                                                    !.construct_duration = 0]
       /\ notifications' =
            <<[i \in 1..Len(last'.ids) |->
                 [object_id |-> last'.ids[i],
                  data_size |-> object_table[last'.ids[i]].data_size,
                  metadata_size |-> object_table[last'.ids[i]].metadata_size,
                  is_deletion |-> FALSE]]>>]_vars

\* Two objects have been sealed by one call.
BatchSealed ==
  /\ ~aborted
  /\ last.op = "SealObjects" /\ Len(last.ids) = 2
  /\ Len(notifications) = 1 /\ Len(notifications[1]) = 2
  /\ \A i \in 1..2 : object_table[last.ids[i]].state = PLASMA_SEALED
\* C17: get_objects puts a requested id that is absent from the table in
\* nonexistent, one whose entry is Sealed in sealed and one whose entry is
\* Created in nonexistent, and every requested id is in exactly one of the
\* three lists sealed, reconstructed and nonexistent.
GetClassification ==
  [][Did("GetObjects") =>
       \A i \in 1..Len(last'.ids) :
         /\ last'.ids[i] \notin DOMAIN object_table
              => last'.ids[i] \in SeqToSet(last'.nonexistent)
         /\ last'.ids[i] \in DOMAIN object_table
              => /\ object_table[last'.ids[i]].state = PLASMA_SEALED
                      => last'.ids[i] \in SeqToSet(last'.sealed)
                 /\ object_table[last'.ids[i]].state = PLASMA_CREATED
                      => last'.ids[i] \in SeqToSet(last'.nonexistent)
         /\ Cardinality({l \in {"sealed", "reconstructed", "nonexistent"} :
                           last'.ids[i] \in SeqToSet(last'[l])}) = 1]_vars
\* C11: in the notifications of a run, a deletion notification for an id
\* comes after a seal notification for that id, and no second deletion
\* notification for it follows without a seal notification in between.
NotificationOrder == \A id \in ObjectIDs : heard[id] # "out_of_order"

\* An id whose deletion the subscribers have heard of has been created again
\* while the other id is known to them as sealed.
DeletedAndCreatedAgain ==
  /\ ~aborted
  /\ \E i, j \in ObjectIDs :
       /\ heard[i] = "deleted" /\ heard[j] = "sealed"
       /\ i \in DOMAIN object_table
       /\ object_table[i].state = PLASMA_CREATED
\* C21: a call of get_objects leaves the ref_count of every entry and the
\* object-id set of every client unchanged.
GetObjectsNoAccounting ==
  [][Did("GetObjects") =>
       /\ client_object_ids' = client_object_ids
       /\ \A id \in DOMAIN object_table :
            /\ id \in DOMAIN object_table'
            /\ object_table'[id].ref_count = object_table[id].ref_count]_vars
\* The clients whose set holds id after the step.
HoldersAfter(id) == {c \in Clients : id \in client_object_ids'[c]}

\* C22: register_sealed_object_to_client for an id that is already in the
\* client's set leaves ref_count, the set and the eviction policy unchanged,
\* so that ref_count counts the distinct clients that hold the id;
\* begin_object_access is called exactly when ref_count goes from 0 to 1, and
\* end_object_access exactly when it goes from 1 to 0 for an id that is not
\* in the deletion cache.
RegistrationIdempotent ==
  [][/\ Did("RegisterSealedObjectToClient") =>
          /\ Arg \in client_object_ids[last'.client] =>
               /\ object_table' = object_table
               /\ client_object_ids' = client_object_ids
               /\ lru' = lru
               /\ last'.calls = <<>>
          /\ object_table'[Arg].ref_count = Cardinality(HoldersAfter(Arg))
          /\ last'.calls = IF object_table[Arg].ref_count = 0
                              /\ object_table'[Arg].ref_count = 1
                           THEN <<<<"BeginObjectAccess", Arg>>>> ELSE <<>>
     /\ Did("ReleaseObject") =>
          last'.calls = IF /\ last'.status = "1"
                           /\ object_table[Arg].ref_count = 1
                           /\ Arg \notin deletion_cache
                        THEN <<<<"EndObjectAccess", Arg>>>> ELSE <<>>]_vars
\* C23: every id in the deletion cache has an entry in the object table
\* that is not Sealed or has ref_count > 0.
NoStaleDeletionMarkers ==
  \A id \in deletion_cache :
    /\ id \in DOMAIN object_table
    /\ \/ object_table[id].state # PLASMA_SEALED
       \/ object_table[id].ref_count > 0
\* C24: the retry loop of allocate_memory returns after finitely many
\* iterations: every iteration that goes on to another one has evicted at
\* least one idle object, and no operation ends with the loop still
\* retrying.
AllocationLoopTerminates ==
  last.op = "AllocateMemory" =>
    /\ ~last.unfinished
    /\ Len(last.rounds) <= MaxRounds
    /\ last.status \in {"OK", "OutOfMemory"}
    /\ \A i \in 1..Len(last.rounds) :
         last.rounds[i].success => last.rounds[i].evicted >= 1

\* An allocation has succeeded on the retry that followed the eviction of
\* an idle object.
AllocatedAfterEviction ==
  /\ ~aborted
  /\ last.op = "AllocateMemory" /\ last.status = "OK"
  /\ \E i \in 1..Len(last.rounds) :
       last.rounds[i].success /\ last.rounds[i].evicted = 1
====
